---- MODULE Spec2Model ----
(***************************************************************************)
(* Model of dodgy_3d's Agent::compute_avoiding_velocity and                *)
(* Agent::get_plane_for_neighbour (crates/dodgy_3d/src/lib.rs).            *)
(*                                                                         *)
(* f32 values are modelled by exact numbers: a scalar is a rational or,    *)
(* once the code has taken a square root, a number a + b*sqrt(f) with a    *)
(* and b rational and f the square-free part of the number under the       *)
(* root.  Rounding of f32 arithmetic, infinities and NaN are not           *)
(* modelled.                                                               *)
(***************************************************************************)
EXTENDS Integers, Sequences, FiniteSets, TLC

(***************************************************************************)
(* Numbers.  <<a, b, d>> is (a + b*sqrt(f)) / d with integers a, b and     *)
(* d > 0 in lowest terms; a rational has b = 0.                            *)
(***************************************************************************)
Abs(n) == IF n < 0 THEN -n ELSE n
Sgn(n) == IF n > 0 THEN 1 ELSE IF n < 0 THEN -1 ELSE 0

RECURSIVE GCD(_, _)
GCD(a, b) == IF b = 0 THEN a ELSE GCD(b, a % b)

Reduce(a, b, d, g) ==
  IF d < 0 THEN <<(-a) \div g, (-b) \div g, (-d) \div g>>
  ELSE <<a \div g, b \div g, d \div g>>
Num(a, b, d) == Reduce(a, b, d, GCD(GCD(Abs(a), Abs(b)), Abs(d)))

Q(n, d) == Num(n, 0, d)
FZero == <<0, 0, 1>>
FOne == <<1, 0, 1>>
FNeg(x) == <<-x[1], -x[2], x[3]>>
Content(x) == GCD(Abs(x[1]), Abs(x[2]))

\* The operations divide by common factors before they multiply, as far as
\* they can, to keep the integers small.
FAddOver(x, y, g) ==
  Num(x[1] * (y[3] \div g) + y[1] * (x[3] \div g),
      x[2] * (y[3] \div g) + y[2] * (x[3] \div g), (x[3] \div g) * y[3])
FAdd(x, y) == FAddOver(x, y, GCD(x[3], y[3]))
FSub(x, y) == FAddOver(x, FNeg(y), GCD(x[3], y[3]))
FMulOver(a, b, c, d, f, den) == Num(a * c + b * d * f, a * d + b * c, den)
FMulCross(x, y, f, g, h) ==
  FMulOver(x[1] \div g, x[2] \div g, y[1] \div h, y[2] \div h, f,
           (x[3] \div h) * (y[3] \div g))
FMul(x, y, f) == FMulCross(x, y, f, GCD(Content(x), y[3]), GCD(Content(y), x[3]))
\* The sign of p/q - r/s for p, r >= 0 and q, s > 0, by their continued
\* fractions.
RECURSIVE CompareFractions(_, _, _, _)
CompareFractions(p, q, r, s) ==
  IF p \div q # r \div s THEN (IF p \div q > r \div s THEN 1 ELSE -1)
  ELSE IF p % q = 0 THEN (IF r % s = 0 THEN 0 ELSE -1)
  ELSE IF r % s = 0 THEN 1
  ELSE CompareFractions(s, r % s, q, p % q)

\* The sign of a + b*sqrt(f); when a and b differ in sign it is that of a
\* times the sign of a*a - b*b*f, that is of |a|/|b| - |b|*f/|a|.
FSign(x, f) ==
  IF x[2] = 0 THEN Sgn(x[1])
  ELSE IF x[1] = 0 \/ Sgn(x[1]) = Sgn(x[2]) THEN Sgn(x[2])
  ELSE Sgn(x[1])
         * CompareFractions(Abs(x[1]), Abs(x[2]), Abs(x[2]) * f, Abs(x[1]))
FInvOver(a, b, c, d, f, g) ==
  Num((d \div g) * a, -((d \div g) * b), (c \div g) * (a * a - b * b * f))
FInvContent(x, f, c) ==
  FInvOver(x[1] \div c, x[2] \div c, c, x[3], f, GCD(c, x[3]))
FInv(x, f) == FInvContent(x, f, Content(x))
FDiv(x, y, f) == FMul(x, FInv(y, f), f)
FLt(x, y, f) == FSign(FSub(x, y), f) < 0

(***************************************************************************)
(* Square roots of rationals.  With a = ka*ka*fa and d = kd*kd*fd, fa and  *)
(* fd square-free, sqrt(a/d) = ka*sqrt(fa*fd) / (kd*fd).                   *)
(***************************************************************************)
RECURSIVE SquarePart(_, _)
SquarePart(n, i) ==
  IF i * i > n THEN 1
  ELSE IF n % (i * i) = 0 THEN i * SquarePart(n \div (i * i), i)
  ELSE SquarePart(n, i + 1)

SquareFree(n, k) == IF n = 0 THEN 1 ELSE n \div (k * k)

SquareFreePart(n) == SquareFree(n, SquarePart(n, 2))

\* The square-free part of a rational x >= 0 (1 when x = 0): the field its
\* square root lies in.
Radical(x) == SquareFreePart(x[1]) * SquareFreePart(x[3])

RootOf(ka, kd, fa, fd) ==
  IF fa * fd = 1 THEN Num(ka, 0, kd) ELSE Num(0, ka, kd * fd)

\* sqrt of a rational x >= 0 whose square-free part is f (or 1).
FSqrt(x, f) ==
  IF x[1] = 0 THEN FZero
  ELSE RootOf(SquarePart(x[1], 2), SquarePart(x[3], 2),
              SquareFreePart(x[1]), SquareFreePart(x[3]))

(***************************************************************************)
(* Vec3.                                                                   *)
(***************************************************************************)
Vec(x, y, z) == <<Q(x, 1), Q(y, 1), Q(z, 1)>>
VZero == Vec(0, 0, 0)
VAdd(u, v) == <<FAdd(u[1], v[1]), FAdd(u[2], v[2]), FAdd(u[3], v[3])>>
VSub(u, v) == <<FSub(u[1], v[1]), FSub(u[2], v[2]), FSub(u[3], v[3])>>
VNeg(u) == <<FNeg(u[1]), FNeg(u[2]), FNeg(u[3])>>
VScale(u, s, f) == <<FMul(u[1], s, f), FMul(u[2], s, f), FMul(u[3], s, f)>>
VDot(u, v, f) ==
  FAdd(FAdd(FMul(u[1], v[1], f), FMul(u[2], v[2], f)), FMul(u[3], v[3], f))
VCross(u, v, f) ==
  <<FSub(FMul(u[2], v[3], f), FMul(u[3], v[2], f)),
    FSub(FMul(u[3], v[1], f), FMul(u[1], v[3], f)),
    FSub(FMul(u[1], v[2], f), FMul(u[2], v[1], f))>>
VLengthSquared(u, f) == VDot(u, u, f)

(***************************************************************************)
(* Unit vectors.  A normal is the zero vector, a normalized vector         *)
(* dir / sqrt(norm2) (norm2 = |dir|^2 > 0), or the random direction        *)
(* (cos(longitude)*sqrt(1 - z*z), sin(longitude)*sqrt(1 - z*z), z).        *)
(* A vector that has the normal in it is [base, along]:                    *)
(* base + along * normal.                                                  *)
(***************************************************************************)
ZeroNormal ==
  [kind |-> "zero", dir |-> VZero, norm2 |-> FOne, z |-> FZero,
   longitude |-> FZero]

Normalized(v, len2) ==
  [kind |-> "normalized", dir |-> v, norm2 |-> len2, z |-> FZero,
   longitude |-> FZero]

\* glam's Vec3::normalize_or_zero: v * length_recip() when that is finite
\* and positive, Vec3::ZERO otherwise.
NormalizeOrZero(v, f) ==
  IF FSign(VLengthSquared(v, f), f) > 0
  THEN Normalized(v, VLengthSquared(v, f))
  ELSE ZeroNormal

\* The direction drawn in the degenerate sub-case.
RandomDirection(z, longitude) ==
  [kind |-> "random", dir |-> VZero, norm2 |-> FOne, z |-> z,
   longitude |-> longitude]

\* |normal|^2, with cos^2 + sin^2 = 1 for the random direction.
NormalLengthSquared(n, f) ==
  IF n.kind = "zero" THEN FZero
  ELSE IF n.kind = "normalized" THEN FDiv(VLengthSquared(n.dir, f), n.norm2, f)
  ELSE FAdd(FMul(FSub(FOne, FMul(n.z, n.z, 1)), FOne, 1), FMul(n.z, n.z, 1))

\* normal * s for a scalar s; the length of a normalized vector here is the
\* root of a rational whose square-free part is f.
NormalTimes(n, s, f) ==
  IF n.kind = "zero" THEN [base |-> VZero, along |-> FZero]
  ELSE IF n.kind = "normalized"
    THEN [base |-> VScale(n.dir, FDiv(s, FSqrt(n.norm2, f), f), f),
          along |-> FZero]
  ELSE [base |-> VZero, along |-> s]

VNAdd(x, v) == [base |-> VAdd(x.base, v), along |-> x.along]
VNSub(x, v) == [base |-> VSub(x.base, v), along |-> x.along]
VNScale(x, s, f) ==
  [base |-> VScale(x.base, s, f), along |-> FMul(x.along, s, f)]

\* Plane::signed_distance_to_plane, times sqrt(normal.norm2): the sign is
\* that of the signed distance.
SignedDistanceTimesNorm(normal, plane_point, x, f) ==
  VDot(VSub(x, plane_point), normal.dir, f)

(***************************************************************************)
(* Agent::get_plane_for_neighbour.                                         *)
(***************************************************************************)
RelativeNeighbourPosition(self, neighbour) ==
  VSub(neighbour.position, self.position)

RelativeAgentVelocity(self, neighbour) ==
  VSub(self.velocity, neighbour.velocity)

SumRadius(self, neighbour) == FAdd(self.radius, neighbour.radius)

\* if distance_squared > sum_radius_squared
NotColliding(distance_squared, sum_radius_squared) ==
  FLt(sum_radius_squared, distance_squared, 1)

\* if dot < 0.0 && dot * dot > sum_radius_squared * |w|^2
BeforeTangentRing(dot, sum_radius_squared, w2) ==
  /\ FSign(dot, 1) < 0
  /\ FLt(FMul(sum_radius_squared, w2, 1), FMul(dot, dot, 1), 1)

\* inside_vo of the cut-off sphere branch
InsideCutoffSphere(w2, cutoff_sphere_radius) ==
  FLt(w2, FMul(cutoff_sphere_radius, cutoff_sphere_radius, 1), 1)

\* A variant that counts a relative velocity on the tangent plane as inside.
InsideShadowOrOn(distance_to_plane, f) == FSign(distance_to_plane, f) <= 0

\* inside_vo of the cut-off shadow branch
InsideShadow(distance_to_plane, f) == FSign(distance_to_plane, f) < 0

\* The cut-off sphere branch: project on to the cut-off sphere.
ProjectToCutoffSphere(w, cutoff_sphere_center, cutoff_sphere_radius, f) ==
  [branch |-> "sphere", f |-> f, vo_normal |-> NormalizeOrZero(w, f),
   projected |->
     VNAdd(NormalTimes(NormalizeOrZero(w, f), cutoff_sphere_radius, f),
           cutoff_sphere_center),
   inside_vo |->
     InsideCutoffSphere(VLengthSquared(w, 1), cutoff_sphere_radius)]

\* A variant of c that adds the quotient instead of subtracting it.
ShadowCPlus(p, v, sum_radius_squared) ==
  FAdd(VLengthSquared(v, 1),
       FDiv(VLengthSquared(VCross(p, v, 1), 1),
            FSub(VLengthSquared(p, 1), sum_radius_squared), 1))

\* c of the shadow branch
ShadowC(p, v, sum_radius_squared) ==
  LET tangent_ring_triangle_leg_squared ==
        FSub(VLengthSquared(p, 1), sum_radius_squared)
      squared_distance_between_rays == VLengthSquared(VCross(p, v, 1), 1)
  IN  FSub(VLengthSquared(v, 1),
           FDiv(squared_distance_between_rays,
                tangent_ring_triangle_leg_squared, 1))

\* b * b - a * c of the shadow branch
ShadowDiscriminant(p, v, sum_radius_squared) ==
  LET a == VLengthSquared(p, 1)
      b == VDot(p, v, 1)
      c == ShadowC(p, v, sum_radius_squared)
  IN  FSub(FMul(b, b, 1), FMul(a, c, 1))

\* t = (-b - sqrt(disc)) / a
ShadowT(p, v, disc, f) ==
  LET a == VLengthSquared(p, 1)
      b == VDot(p, v, 1)
  IN  FDiv(FSub(FNeg(b), FSqrt(disc, f)), a, f)

\* The normal of the shadow branch; the square root of a negative number is
\* NaN, which normalize_or_zero turns into Vec3::ZERO.
ShadowNormal(p, v, disc, f) ==
  IF FSign(disc, 1) < 0 THEN ZeroNormal
  ELSE NormalizeOrZero(VAdd(v, VScale(p, ShadowT(p, v, disc, f), f)), f)

ShadowProjection(v, vo_normal, distance_to_plane, f) ==
  [branch |-> "shadow", f |-> f, vo_normal |-> vo_normal,
   projected |->
     [base |->
        VSub(v, VScale(vo_normal.dir,
                       FDiv(distance_to_plane, vo_normal.norm2, f), f)),
      along |-> FZero],
   inside_vo |-> InsideShadow(distance_to_plane, f)]

ShadowPlane(v, vo_normal, f) ==
  ShadowProjection(v, vo_normal,
                   SignedDistanceTimesNorm(vo_normal, VZero, v, f), f)

ShadowField(disc) == IF FSign(disc, 1) < 0 THEN 1 ELSE Radical(disc)

ShadowOf(p, v, disc) ==
  ShadowPlane(v, ShadowNormal(p, v, disc, ShadowField(disc)),
              ShadowField(disc))

\* The cut-off shadow branch: project on to the shadow (a cone).
ProjectToShadow(p, v, sum_radius_squared) ==
  ShadowOf(p, v, ShadowDiscriminant(p, v, sum_radius_squared))

\* distance_squared > sum_radius_squared: no collision.
NoCollision(p, v, sum_radius, cutoff_sphere_center, time_horizon) ==
  IF BeforeTangentRing(VDot(VSub(v, cutoff_sphere_center), p, 1),
                       FMul(sum_radius, sum_radius, 1),
                       VLengthSquared(VSub(v, cutoff_sphere_center), 1))
  THEN ProjectToCutoffSphere(
         VSub(v, cutoff_sphere_center), cutoff_sphere_center,
         FDiv(sum_radius, time_horizon, 1),
         Radical(VLengthSquared(VSub(v, cutoff_sphere_center), 1)))
  ELSE ProjectToShadow(p, v, FMul(sum_radius, sum_radius, 1))

\* The normal of the collision branch: w * recip when recip is finite and
\* positive, a random direction otherwise.
CollisionNormal(w, f, z, longitude) ==
  IF FSign(VLengthSquared(w, 1), 1) > 0
  THEN NormalizeOrZero(w, f)
  ELSE RandomDirection(z, longitude)

CollisionProjection(vo_normal, cutoff_sphere_center, cutoff_sphere_radius, f) ==
  [branch |-> IF vo_normal.kind = "random" THEN "degenerate" ELSE "collision",
   f |-> f, vo_normal |-> vo_normal,
   projected |->
     VNAdd(NormalTimes(vo_normal, cutoff_sphere_radius, f),
           cutoff_sphere_center),
   inside_vo |-> TRUE]

\* distance_squared <= sum_radius_squared: collision; project on the cut-off
\* sphere at time time_step.
Collision(v, sum_radius, cutoff_sphere_center, time_step, z, longitude) ==
  CollisionProjection(
    CollisionNormal(
      VSub(v, cutoff_sphere_center),
      Radical(VLengthSquared(VSub(v, cutoff_sphere_center), 1)),
      z, longitude),
    cutoff_sphere_center, FDiv(sum_radius, time_step, 1),
    Radical(VLengthSquared(VSub(v, cutoff_sphere_center), 1)))

\* A variant whose collision branch scales by time_horizon, as the other
\* branch does.
VelocityObstacleOfHorizon(p, v, sum_radius, time_horizon, time_step, z, longitude) ==
  IF NotColliding(VLengthSquared(p, 1), FMul(sum_radius, sum_radius, 1))
  THEN NoCollision(p, v, sum_radius, VScale(p, FInv(time_horizon, 1), 1),
                   time_horizon)
  ELSE Collision(v, sum_radius, VScale(p, FInv(time_horizon, 1), 1),
                 time_horizon, z, longitude)

VelocityObstacleOf(p, v, sum_radius, time_horizon, time_step, z, longitude) ==
  IF NotColliding(VLengthSquared(p, 1), FMul(sum_radius, sum_radius, 1))
  THEN NoCollision(p, v, sum_radius, VScale(p, FInv(time_horizon, 1), 1),
                   time_horizon)
  ELSE Collision(v, sum_radius, VScale(p, FInv(time_step, 1), 1), time_step,
                 z, longitude)

\* The locals of get_plane_for_neighbour where its three branches meet:
\* vo_normal, relative_velocity_projected_to_vo, inside_vo.
VelocityObstacle(self, neighbour, time_horizon, time_step, z, longitude) ==
  VelocityObstacleOf(RelativeNeighbourPosition(self, neighbour),
                     RelativeAgentVelocity(self, neighbour),
                     SumRadius(self, neighbour), time_horizon, time_step, z,
                     longitude)

\* A variant that never shares the avoidance with the neighbour.
ResponsibilityOne(self, neighbour, inside_vo) == FOne

Responsibility(self, neighbour, inside_vo) ==
  IF inside_vo
  THEN FDiv(self.avoidance_responsibility,
            FAdd(self.avoidance_responsibility,
                 neighbour.avoidance_responsibility), 1)
  ELSE FOne

\* u = relative_velocity_projected_to_vo - relative_agent_velocity
\* Plane { point: self.velocity + u * responsibility, normal: vo_normal }
PlaneOf(self, neighbour, vo) ==
  [point |->
     VNAdd(VNScale(VNSub(vo.projected,
                         RelativeAgentVelocity(self, neighbour)),
                   Responsibility(self, neighbour, vo.inside_vo), vo.f),
           self.velocity),
   normal |-> vo.vo_normal, f |-> vo.f]

GetPlaneForNeighbour(self, neighbour, time_horizon, time_step, z, longitude) ==
  PlaneOf(self, neighbour,
          VelocityObstacle(self, neighbour, time_horizon, time_step, z,
                           longitude))

(***************************************************************************)
(* solve_linear_program of linear_programming.rs, as far as its            *)
(* specification determines it and these numbers can express it: the       *)
(* preferred velocity clamped to the speed sphere when it satisfies every  *)
(* plane, and its projection on a single violated plane when that lies     *)
(* within the speed sphere.  A velocity satisfies a plane when its signed  *)
(* distance to the plane is not negative (the side get_plane_for_neighbour *)
(* calls outside the velocity obstacle).                                   *)
(***************************************************************************)
NoResult == [kind |-> "none", f |-> 1, value |-> VZero]
Unmodelled == [kind |-> "unmodelled", f |-> 1, value |-> VZero]

Clamped(preferred_value, radius, len2, g) ==
  IF FLt(FMul(radius, radius, 1), len2, 1)
  THEN [kind |-> "clamped", f |-> g,
        value |-> VScale(preferred_value, FDiv(radius, FSqrt(len2, g), g), g)]
  ELSE [kind |-> "preferred", f |-> 1, value |-> preferred_value]

\* The preferred velocity clamped to the sphere of radius max_speed.
ClampToSphere(preferred_value, radius) ==
  Clamped(preferred_value, radius, VLengthSquared(preferred_value, 1),
          Radical(VLengthSquared(preferred_value, 1)))

\* The numbers of a plane and of a velocity lie in one field.
Comparable(plane, candidate) ==
  /\ plane.normal.kind # "random"
  /\ plane.f = 1 \/ candidate.f = 1 \/ plane.f = candidate.f

CommonField(f, g) == IF f = 1 THEN g ELSE f

Satisfies(plane, value, f) ==
  FSign(SignedDistanceTimesNorm(plane.normal, plane.point.base, value, f), f)
    >= 0

AllSatisfied(planes, candidate) ==
  \A i \in 1..Len(planes) :
    /\ Comparable(planes[i], candidate)
    /\ Satisfies(planes[i], candidate.value,
                 CommonField(planes[i].f, candidate.f))

Projected(radius, point, f) ==
  IF FLt(FMul(radius, radius, 1), VLengthSquared(point, f), f) THEN Unmodelled
  ELSE [kind |-> "projected", f |-> f, value |-> point]

\* The point of the plane nearest the preferred velocity, when the speed
\* sphere holds it.
ProjectToPlane(plane, radius, preferred_value) ==
  IF plane.normal.kind # "normalized" THEN Unmodelled
  ELSE Projected(
         radius,
         VSub(preferred_value,
              VScale(plane.normal.dir,
                     FDiv(SignedDistanceTimesNorm(plane.normal,
                                                  plane.point.base,
                                                  preferred_value, plane.f),
                          plane.normal.norm2, plane.f),
                     plane.f)),
         plane.f)

SolveLinearProgram(planes, radius, preferred_value) ==
  IF AllSatisfied(planes, ClampToSphere(preferred_value, radius))
  THEN ClampToSphere(preferred_value, radius)
  ELSE IF Len(planes) = 1 THEN ProjectToPlane(planes[1], radius, preferred_value)
  ELSE Unmodelled

(***************************************************************************)
(* The calls of Agent::compute_avoiding_velocity.  Every variable is a     *)
(* function of the call: its arguments, how far it has got (pc), the       *)
(* planes collected so far, the locals get_plane_for_neighbour had for     *)
(* each of them, the random numbers drawn and the velocity returned.       *)
(***************************************************************************)
VARIABLES agent, neighbours, preferred_velocity, max_speed, time_step,
          time_horizon, pc, locals, planes, result, draws

vars ==
  <<agent, neighbours, preferred_velocity, max_speed, time_step, time_horizon,
    pc, locals, planes, result, draws>>

args ==
  <<agent, neighbours, preferred_velocity, max_speed, time_step, time_horizon>>

Calls == DOMAIN pc

MaxNeighbours == 2
RandSteps == 2
MaxCoord == 2

\* The values rand::random::<f32>() returns: the half-open interval [0, 1).
RandomF32 == {Q(k, RandSteps) : k \in 0..(RandSteps - 1)}

Agent(position, velocity, radius, avoidance_responsibility) ==
  [position |-> position, velocity |-> velocity, radius |-> radius,
   avoidance_responsibility |-> avoidance_responsibility]

\* A variant of the assertion that lets a time_step of zero pass.
AssertTimeStepNonNegative(c) ==
  /\ pc[c] = "call"
  /\ pc' = [pc EXCEPT ![c] = IF FSign(time_step[c], 1) >= 0 THEN "planes"
                             ELSE "panicked"]
  /\ UNCHANGED <<args, locals, planes, result, draws>>

\* assert!(time_step > 0.0, ...)
AssertTimeStep(c) ==
  /\ pc[c] = "call"
  /\ pc' = [pc EXCEPT ![c] = IF FSign(time_step[c], 1) > 0 THEN "planes"
                             ELSE "panicked"]
  /\ UNCHANGED <<args, locals, planes, result, draws>>

\* The neighbour the next plane is built for.
NextNeighbour(c) == neighbours[c][Len(planes[c]) + 1]

\* get_plane_for_neighbour draws random numbers for this pair.
IsDegenerate(self, neighbour, th, ts) ==
  VelocityObstacle(self, neighbour, th, ts, FZero, FZero).branch = "degenerate"

Collect(c, vo) ==
  /\ locals' = [locals EXCEPT ![c] = Append(@, vo)]
  /\ planes' = [planes EXCEPT ![c] =
       Append(@, PlaneOf(agent[c], NextNeighbour(c), vo))]

\* One step of neighbours.iter().map(...).collect(), no random number drawn.
BuildPlane(c) ==
  /\ pc[c] = "planes"
  /\ Len(planes[c]) < Len(neighbours[c])
  /\ ~IsDegenerate(agent[c], NextNeighbour(c), time_horizon[c], time_step[c])
  /\ \E vo \in {VelocityObstacle(agent[c], NextNeighbour(c), time_horizon[c],
                                 time_step[c], FZero, FZero)} : Collect(c, vo)
  /\ UNCHANGED <<args, pc, result, draws>>

\* The same step when the degenerate sub-case draws z and longitude.
BuildPlaneRandom(c) ==
  /\ pc[c] = "planes"
  /\ Len(planes[c]) < Len(neighbours[c])
  /\ IsDegenerate(agent[c], NextNeighbour(c), time_horizon[c], time_step[c])
  /\ \E z \in RandomF32, longitude \in RandomF32 :
       \E vo \in {VelocityObstacle(agent[c], NextNeighbour(c), time_horizon[c],
                                   time_step[c], z, longitude)} : Collect(c, vo)
  /\ draws' = [draws EXCEPT ![c] = @ + 2]
  /\ UNCHANGED <<args, pc, result>>

\* A variant that hands the solver the agent's current velocity.
SolveCurrentVelocity(c) ==
  /\ pc[c] = "planes"
  /\ Len(planes[c]) = Len(neighbours[c])
  /\ result' = [result EXCEPT ![c] =
       SolveLinearProgram(planes[c], max_speed[c], agent[c].velocity)]
  /\ pc' = [pc EXCEPT ![c] = "done"]
  /\ UNCHANGED <<args, locals, planes, draws>>

\* solve_linear_program(&planes, max_speed, preferred_velocity)
Solve(c) ==
  /\ pc[c] = "planes"
  /\ Len(planes[c]) = Len(neighbours[c])
  /\ result' = [result EXCEPT ![c] =
       SolveLinearProgram(planes[c], max_speed[c], preferred_velocity[c])]
  /\ pc' = [pc EXCEPT ![c] = "done"]
  /\ UNCHANGED <<args, locals, planes, draws>>

Next ==
  \/ \E c \in Calls : AssertTimeStep(c)
  \/ \E c \in Calls : BuildPlane(c)
  \/ \E c \in Calls : BuildPlaneRandom(c)
  \/ \E c \in Calls : Solve(c)

Fresh(c) ==
  /\ pc = [i \in c |-> "call"]
  /\ locals = [i \in c |-> <<>>]
  /\ planes = [i \in c |-> <<>>]
  /\ result = [i \in c |-> NoResult]
  /\ draws = [i \in c |-> 0]

(***************************************************************************)
(* Spec: one call, over lists of neighbours drawn from a pool.             *)
(***************************************************************************)
AgentA == Agent(Vec(0, 0, 0), Vec(1, 0, 0), Q(1, 2), Q(1, 2))
AgentB == Agent(Vec(2, 0, 0), Vec(-1, 0, 0), Q(1, 2), Q(1, 2))

SelfPool == {AgentA, Agent(Vec(0, 1, 0), Vec(0, 0, 0), Q(1, 1), Q(1, 1))}

NeighbourPool ==
  {AgentB,
   Agent(Vec(0, 0, 0), Vec(1, 0, 0), Q(1, 2), Q(1, 1)),
   Agent(Vec(1, 0, 0), Vec(0, 0, 0), Q(1, 2), Q(1, 2)),
   Agent(Vec(2, 1, 0), Vec(0, 0, 0), Q(1, 2), Q(3, 2))}

NeighbourLists ==
  UNION {[1..n -> NeighbourPool] : n \in 0..MaxNeighbours}

PreferredVelocities == {Vec(1, 0, 0), Vec(2, 0, 0), Vec(0, 0, 0), Vec(1, 1, 0)}
MaxSpeeds == {Q(0, 1), Q(1, 1), Q(2, 1)}
TimeSteps == {Q(-1, 1), Q(0, 1), Q(1, 10), Q(1, 1)}
TimeHorizons == {Q(1, 1), Q(2, 1)}

Init ==
  /\ agent \in [{1} -> SelfPool]
  /\ neighbours \in [{1} -> NeighbourLists]
  /\ preferred_velocity \in [{1} -> PreferredVelocities]
  /\ max_speed \in [{1} -> MaxSpeeds]
  /\ time_step \in [{1} -> TimeSteps]
  /\ time_horizon \in [{1} -> TimeHorizons]
  /\ Fresh({1})

Spec == Init /\ [][Next]_vars

(***************************************************************************)
(* SpecPlane: the planes of one call with one neighbour, over a grid of    *)
(* relative positions and velocities.                                      *)
(***************************************************************************)
GridPositions ==
  {Vec(x, y, z) : x \in 0..MaxCoord, y \in 0..1, z \in 0..1}

GridVelocities ==
  {Vec(x, y, z) : x \in (-MaxCoord)..MaxCoord, y \in (-MaxCoord)..MaxCoord,
                  z \in 0..1}

GridNeighbours ==
  {Agent(p, Vec(0, 0, 0), Q(1, 2), Q(3, 2)) : p \in GridPositions}
    \cup {Agent(p, Vec(0, 0, 0), Q(1, 1), Q(1, 2)) : p \in GridPositions}

GridSelves ==
  {Agent(Vec(0, 0, 0), v, Q(1, 2), Q(1, 2)) : v \in GridVelocities}

InitPlane ==
  /\ agent \in [{1} -> GridSelves]
  /\ neighbours \in [{1} -> {<<n>> : n \in GridNeighbours}]
  /\ preferred_velocity = [i \in {1} |-> Vec(1, 0, 0)]
  /\ max_speed = [i \in {1} |-> Q(2, 1)]
  /\ time_step \in [{1} -> {Q(1, 2), Q(1, 1)}]
  /\ time_horizon \in [{1} -> TimeHorizons]
  /\ Fresh({1})

\* The call up to the planes it hands the solver.
NextPlane ==
  \/ \E c \in Calls : AssertTimeStep(c)
  \/ \E c \in Calls : BuildPlane(c)
  \/ \E c \in Calls : BuildPlaneRandom(c)

SpecPlane == InitPlane /\ [][NextPlane]_vars

(***************************************************************************)
(* SpecSym: two agents at mirrored positions with opposite velocities,     *)
(* each computing its velocity against the other alone.                    *)
(***************************************************************************)
Mirror(a) ==
  Agent(VNeg(a.position), VNeg(a.velocity), a.radius,
        a.avoidance_responsibility)

SymPositions == {Vec(x, y, 0) : x \in 0..MaxCoord, y \in 0..1}
SymVelocities == {Vec(x, y, z) : x \in (-1)..1, y \in (-1)..1, z \in 0..1}

SymAgents ==
  {Agent(p, v, r, r) : p \in SymPositions, v \in SymVelocities,
                       r \in {Q(1, 2), Q(1, 1)}}

InitSym ==
  /\ agent \in {[i \in {1, 2} |-> IF i = 1 THEN a ELSE Mirror(a)] :
                  a \in SymAgents}
  /\ neighbours = [i \in {1, 2} |-> <<agent[3 - i]>>]
  /\ preferred_velocity \in
       {[i \in {1, 2} |-> IF i = 1 THEN w ELSE VNeg(w)] :
          w \in {Vec(1, 0, 0), Vec(-2, 1, 0)}}
  /\ max_speed \in {[i \in {1, 2} |-> m] : m \in {Q(1, 1), Q(2, 1)}}
  /\ time_step = [i \in {1, 2} |-> Q(1, 2)]
  /\ time_horizon = [i \in {1, 2} |-> Q(2, 1)]
  /\ Fresh({1, 2})

SpecSym == InitSym /\ [][Next]_vars
(***************************************************************************)
(* Properties.                                                             *)
(***************************************************************************)
NonPositive(x) == FSign(x, 1) <= 0

\* The planes built so far: <<call, index>>.
Built == {<<c, i>> \in Calls \X (1..MaxNeighbours + 1) : i <= Len(planes[c])}

\* C1: a call with time_step <= 0 stops at the assertion: it builds no
\* plane, draws no random number, never invokes the solver and returns no
\* velocity; and only such a call panics.
C1_NonPositiveTimeStepAborts ==
  \A c \in Calls :
    /\ NonPositive(time_step[c]) =>
         /\ pc[c] \in {"call", "panicked"}
         /\ planes[c] = <<>>
         /\ locals[c] = <<>>
         /\ draws[c] = 0
         /\ result[c] = NoResult
    /\ pc[c] = "panicked" => NonPositive(time_step[c])

C1_Witness ==
  \E c \in Calls :
    pc[c] = "panicked" /\ NonPositive(time_step[c]) /\ neighbours[c] # <<>>

C3_Scenario(c) ==
  /\ agent[c] = AgentA
  /\ neighbours[c] = <<AgentB>>
  /\ time_horizon[c] = Q(2, 1)
  /\ time_step[c] = Q(1, 10)
  /\ max_speed[c] = Q(1, 1)
  /\ preferred_velocity[c] = Vec(1, 0, 0)

\* C3: in the head-on scenario the call takes Case A (no collision) and
\* returns a velocity with a nonzero y or z component and magnitude <= 1.
C3_HeadOnDeviates ==
  \A c \in Calls :
    (C3_Scenario(c) /\ pc[c] = "done") =>
      /\ locals[c][1].branch \in {"sphere", "shadow"}
      /\ result[c].value[2] # FZero \/ result[c].value[3] # FZero
      /\ ~FLt(FOne, VLengthSquared(result[c].value, result[c].f), result[c].f)

C3_Witness ==
  \E c \in Calls :
    /\ C3_Scenario(c)
    /\ pc[c] = "done"
    /\ locals[c][1].branch = "shadow"
    /\ planes[c][1].normal.kind = "zero"
    /\ result[c].value = Vec(1, 0, 0)

\* C4: every plane get_plane_for_neighbour emits has a normal of length 1.
C4_UnitNormal ==
  \A b \in Built :
    NormalLengthSquared(planes[b[1]][b[2]].normal, planes[b[1]][b[2]].f) = FOne

C4_Witness ==
  \E b \in Built :
    /\ locals[b[1]][b[2]].branch = "shadow"
    /\ planes[b[1]][b[2]].normal.kind = "zero"
    /\ FSign(time_step[b[1]], 1) > 0

\* C5: a call without neighbours returns the preferred velocity when its
\* length is at most max_speed, and otherwise a vector of length max_speed
\* parallel to the preferred velocity and pointing the same way, whatever the
\* agent, time_step and time_horizon are.
C5_NoNeighbours ==
  \A c \in Calls :
    (pc[c] = "done" /\ neighbours[c] = <<>>) =>
      IF FLt(FMul(max_speed[c], max_speed[c], 1),
             VLengthSquared(preferred_velocity[c], 1), 1)
      THEN /\ VLengthSquared(result[c].value, result[c].f)
                = FMul(max_speed[c], max_speed[c], 1)
           /\ VCross(result[c].value, preferred_velocity[c], result[c].f)
                = VZero
           /\ FSign(VDot(result[c].value, preferred_velocity[c], result[c].f),
                    result[c].f) >= 0
      ELSE result[c].value = preferred_velocity[c]

C5_Witness ==
  \E c \in Calls :
    /\ pc[c] = "done"
    /\ neighbours[c] = <<>>
    /\ result[c].kind = "clamped"
    /\ result[c].f = 2
    /\ agent[c].velocity # preferred_velocity[c]

\* The pair a plane was built for, and what get_plane_for_neighbour starts
\* from.
SelfOf(b) == agent[b[1]]
NeighbourOf(b) == neighbours[b[1]][b[2]]
PositionOf(b) == VSub(NeighbourOf(b).position, SelfOf(b).position)
VelocityOf(b) == VSub(SelfOf(b).velocity, NeighbourOf(b).velocity)
RadiusOf(b) == FAdd(SelfOf(b).radius, NeighbourOf(b).radius)
Overlapping(b) ==
  ~FLt(FMul(RadiusOf(b), RadiusOf(b), 1), VLengthSquared(PositionOf(b), 1), 1)

\* The plane of the same pair under another time_horizon and time_step, with
\* the random numbers the plane built was given.
PlaneWith(b, th, ts) ==
  GetPlaneForNeighbour(SelfOf(b), NeighbourOf(b), th, ts,
                       planes[b[1]][b[2]].normal.z,
                       planes[b[1]][b[2]].normal.longitude)

BranchWith(b, th, ts) ==
  VelocityObstacle(SelfOf(b), NeighbourOf(b), th, ts, FZero, FZero).branch

OtherTimeHorizons == {Q(1, 2), Q(1, 1), Q(2, 1), Q(3, 1)}
OtherTimeSteps == {Q(1, 10), Q(1, 2), Q(1, 1), Q(3, 1)}

\* Just built: the call is still collecting planes.
JustBuilt == {b \in Built : pc[b[1]] = "planes"}

\* The two calls of SpecSym have built their planes without a random draw.
BothBuilt ==
  /\ Calls = {1, 2}
  /\ Len(planes[1]) = 1
  /\ Len(planes[2]) = 1
  /\ locals[1][1].branch # "degenerate"

NegatedNormal(n) == [n EXCEPT !.dir = VNeg(n.dir)]
NegatedPoint(x) == [base |-> VNeg(x.base), along |-> x.along]

\* C6: two agents of the same radius and responsibility at mirrored
\* positions with opposite velocities and opposite preferred velocities build
\* planes that mirror each other (point and normal negated, same branch, same
\* inside flag, the displacement u halved when inside) and, where the model
\* determines the velocities returned, return velocities that are the
\* negation of each other.
C6_MirrorSymmetry ==
  BothBuilt =>
    /\ locals[2][1].branch = locals[1][1].branch
    /\ locals[2][1].inside_vo = locals[1][1].inside_vo
    /\ planes[2][1].f = planes[1][1].f
    /\ planes[2][1].normal = NegatedNormal(planes[1][1].normal)
    /\ planes[2][1].point = NegatedPoint(planes[1][1].point)
    /\ locals[1][1].inside_vo =>
         planes[1][1].point =
           VNAdd(VNScale(VNSub(locals[1][1].projected, VelocityOf(<<1, 1>>)),
                         Q(1, 2), planes[1][1].f),
                 agent[1].velocity)
    /\ (pc[1] = "done" /\ pc[2] = "done") =>
         /\ result[2].kind = result[1].kind
         /\ result[2].f = result[1].f
         /\ result[2].value = VNeg(result[1].value)

C6_Witness ==
  /\ BothBuilt
  /\ pc[1] = "done"
  /\ pc[2] = "done"
  /\ locals[1][1].inside_vo
  /\ planes[1][1].normal.kind = "normalized"
  /\ result[1].kind = "projected"
  /\ result[1].value # VZero

\* C7: the collision case is taken exactly when D^2 <= R^2; its cut-off
\* sphere is scaled by 1 / time_step, it always sets inside_vo, and its plane
\* is the same for every time_horizon.  When D^2 > R^2 the plane is the same
\* for every time_step, and a plane of the shadow branch is the same for
\* every time_horizon that leads to the shadow branch.
C7_CaseSelection ==
  \A b \in JustBuilt :
    /\ locals[b[1]][b[2]].branch \in {"collision", "degenerate"}
         <=> Overlapping(b)
    /\ Overlapping(b) =>
         /\ locals[b[1]][b[2]].inside_vo
         /\ locals[b[1]][b[2]].projected =
              VNAdd(NormalTimes(locals[b[1]][b[2]].vo_normal,
                                FDiv(RadiusOf(b), time_step[b[1]], 1),
                                locals[b[1]][b[2]].f),
                    VScale(PositionOf(b), FInv(time_step[b[1]], 1), 1))
         /\ \A th \in OtherTimeHorizons :
              PlaneWith(b, th, time_step[b[1]]) = planes[b[1]][b[2]]
    /\ ~Overlapping(b) =>
         /\ \A ts \in OtherTimeSteps :
              PlaneWith(b, time_horizon[b[1]], ts) = planes[b[1]][b[2]]
         /\ locals[b[1]][b[2]].branch = "shadow" =>
              \A th \in OtherTimeHorizons :
                BranchWith(b, th, time_step[b[1]]) = "shadow" =>
                  PlaneWith(b, th, time_step[b[1]]) = planes[b[1]][b[2]]

\* Touching agents (D^2 = R^2 > 0) whose plane came from the collision case.
C7_Witness ==
  \E b \in JustBuilt :
    /\ VLengthSquared(PositionOf(b), 1) = FMul(RadiusOf(b), RadiusOf(b), 1)
    /\ locals[b[1]][b[2]].branch = "collision"
    /\ planes[b[1]][b[2]].normal.kind = "normalized"

\* inside_vo as the three branches define it, from the arguments and the
\* normal alone.
InsideObstacle(b) ==
  IF locals[b[1]][b[2]].branch = "sphere"
  THEN FLt(VLengthSquared(
             VSub(VelocityOf(b),
                  VScale(PositionOf(b), FInv(time_horizon[b[1]], 1), 1)), 1),
           FMul(FDiv(RadiusOf(b), time_horizon[b[1]], 1),
                FDiv(RadiusOf(b), time_horizon[b[1]], 1), 1), 1)
  ELSE IF locals[b[1]][b[2]].branch = "shadow"
  THEN FSign(VDot(VelocityOf(b), locals[b[1]][b[2]].vo_normal.dir,
                  locals[b[1]][b[2]].f), locals[b[1]][b[2]].f) < 0
  ELSE TRUE

WeightOf(b) ==
  IF InsideObstacle(b)
  THEN FDiv(SelfOf(b).avoidance_responsibility,
            FAdd(SelfOf(b).avoidance_responsibility,
                 NeighbourOf(b).avoidance_responsibility), 1)
  ELSE FOne

\* C8: the plane emitted is point = self.velocity + u * responsibility,
\* normal = the obstacle normal, with u = projected point - relative
\* velocity and responsibility = self / (self + neighbour) exactly when the
\* relative velocity is strictly inside the obstacle, 1 otherwise (so also
\* on the boundary).
C8_ResponsibilityWeighting ==
  \A b \in JustBuilt :
    /\ locals[b[1]][b[2]].inside_vo = InsideObstacle(b)
    /\ planes[b[1]][b[2]].normal = locals[b[1]][b[2]].vo_normal
    /\ planes[b[1]][b[2]].point =
         VNAdd(VNScale(VNSub(locals[b[1]][b[2]].projected, VelocityOf(b)),
                       WeightOf(b), planes[b[1]][b[2]].f),
               SelfOf(b).velocity)

\* A relative velocity exactly on the tangent plane of the shadow, and
\* agents of different responsibility.
C8_Witness ==
  \E b \in JustBuilt :
    /\ locals[b[1]][b[2]].branch = "shadow"
    /\ planes[b[1]][b[2]].normal.kind = "normalized"
    /\ VDot(VelocityOf(b), planes[b[1]][b[2]].normal.dir,
            planes[b[1]][b[2]].f) = FZero
    /\ ~locals[b[1]][b[2]].inside_vo
    /\ SelfOf(b).avoidance_responsibility
         # NeighbourOf(b).avoidance_responsibility

\* The calls about to build a plane in the degenerate sub-case.
AboutToDraw ==
  {c \in Calls :
     /\ pc[c] = "planes"
     /\ Len(planes[c]) < Len(neighbours[c])
     /\ IsDegenerate(agent[c], NextNeighbour(c), time_horizon[c],
                     time_step[c])}

\* The normals the degenerate sub-case can give the next plane of call c.
PossibleNormals(c) ==
  {VelocityObstacle(agent[c], NextNeighbour(c), time_horizon[c], time_step[c],
                    z, longitude).vo_normal :
     z \in RandomF32, longitude \in RandomF32}

\* Points of [-1, 1] and of [0, 2*pi) (6 < 2*pi), on the grid of RandomF32.
WholeZ == {Q(k, RandSteps) : k \in (-RandSteps)..RandSteps}
WholeLongitude == {Q(k, RandSteps) : k \in 0..(6 * RandSteps)}

\* C9: in the degenerate sub-case the normal is the direction of a z from
\* the whole of [-1, 1] and a longitude from the whole of [0, 2*pi): every
\* such direction is a possible normal of the plane.
C9_EveryDirection ==
  \A c \in AboutToDraw :
    \A z \in WholeZ, longitude \in WholeLongitude :
      RandomDirection(z, longitude) \in PossibleNormals(c)

\* A plane of the degenerate sub-case: its z and longitude lie in [0, 1).
C9_Witness ==
  \E b \in Built :
    /\ locals[b[1]][b[2]].branch = "degenerate"
    /\ draws[b[1]] >= 2
    /\ planes[b[1]][b[2]].normal.kind = "random"
    /\ FSign(planes[b[1]][b[2]].normal.z, 1) >= 0
    /\ FLt(planes[b[1]][b[2]].normal.z, FOne, 1)
    /\ FLt(planes[b[1]][b[2]].normal.longitude, FOne, 1)

\* The quantities of the shadow branch, from the arguments of the call.
LegSquared(b) ==
  FSub(VLengthSquared(PositionOf(b), 1), FMul(RadiusOf(b), RadiusOf(b), 1))
CrossSquared(b) ==
  VLengthSquared(VCross(PositionOf(b), VelocityOf(b), 1), 1)
DiscriminantOf(b) ==
  ShadowDiscriminant(PositionOf(b), VelocityOf(b),
                     FMul(RadiusOf(b), RadiusOf(b), 1))
RootOfShadow(b) ==
  ShadowT(PositionOf(b), VelocityOf(b), DiscriminantOf(b),
          Radical(DiscriminantOf(b)))

\* a*t*t + 2*b*t + c, the quadratic t solves, in the field t lies in.
Quadratic(a, b, c, t, f) ==
  FAdd(FAdd(FMul(a, FMul(t, t, f), f), FMul(FAdd(b, b), t, f)), c)

====
